---- MODULE Spec2Model ----
(***************************************************************************)
(* Model of chainer/initializers/constant.py: the initializers Identity,   *)
(* Constant, Zero, One and NaN, their constructors and their __call__.     *)
(*                                                                         *)
(* Numbers.  A number is a record [t, h].  t = "fin" is the finite number  *)
(* h/2 (h counts halves, so 0.5 is h = 1 and 1.0 is h = 2), t = "inf" is   *)
(* +inf (h = 1) or -inf (h = -1), t = "nan" is NaN, and t = "str" is a     *)
(* text element of a unicode array (numpy.asarray('abc')).  Every finite   *)
(* number of the model is exactly representable in float32 and float64.    *)
(*                                                                         *)
(* Arrays.  An array is a record [shape, dtype, device, data]; data maps   *)
(* the row-major positions 1..Size(shape) to numbers.                      *)
(***************************************************************************)
EXTENDS Integers, Sequences, FiniteSets, TLC

\* Largest extent of one dimension of a target array.
MaxDim == 2
\* Largest number of successive __call__s on the one array.
MaxCalls == 2

VARIABLES
    self,        \* the initializer object (NoObject before construction)
    ctor,        \* the constructor call made: [cls, fill_value, dtype]
    array,       \* the caller's target array
    orig,        \* the target array as the caller allocated it
    before,      \* the target array right before the last __call__
    exc,         \* exception raised by the last constructor or __call__
    ret,         \* value returned by the last __call__
    calls,       \* number of __call__s made so far
    castInvalid, \* what this build's float->int cast yields for NaN and inf
    shared,      \* concurrent use: the initializer shared by the threads
    arrs,        \* concurrent use: thread -> its target array
    arrs0,       \* concurrent use: thread -> its target array at the start
    pc,          \* concurrent use: thread -> position in __call__
    temp,        \* concurrent use: thread -> local value being assigned
    cursor,      \* concurrent use: thread -> next position to be written
    texc         \* concurrent use: thread -> exception raised

vars == <<self, ctor, array, orig, before, exc, ret, calls, castInvalid,
          shared, arrs, arrs0, pc, temp, cursor, texc>>

seqVars == <<self, ctor, array, orig, before, exc, ret, calls>>
concVars == <<shared, arrs, arrs0, pc, temp, cursor, texc>>

-----------------------------------------------------------------------------
(* Numbers *)

Fin(h) == [t |-> "fin", h |-> h]
NaNv == [t |-> "nan", h |-> 0]
PosInf == [t |-> "inf", h |-> 1]
NegInf == [t |-> "inf", h |-> -1]
StrAbc == [t |-> "str", h |-> 0]

IsNaN(v) == v.t = "nan"
IsFinite(v) == v.t = "fin"

Sign(h) == IF h > 0 THEN 1 ELSE IF h < 0 THEN -1 ELSE 0

\* IEEE-754 product of two floats; on finite operands it is exact when one
\* of them is a whole number, which is the case for the entries of an
\* identity matrix.
FloatMul(a, b) ==
    IF a.t = "nan" \/ b.t = "nan" THEN NaNv
    ELSE IF a.t = "inf" \/ b.t = "inf"
         THEN IF a.h = 0 \/ b.h = 0 THEN NaNv
              ELSE [t |-> "inf", h |-> Sign(a.h) * Sign(b.h)]
    ELSE Fin((a.h * b.h) \div 2)

\* Truncation of h halves toward zero, as a whole number of halves.
TruncHalves(h) == IF h >= 0 THEN (h \div 2) * 2 ELSE -(((-h) \div 2) * 2)

\* Two's-complement wrap of h halves into the int8 range -128..127.
WrapInt8(h) == ((((h \div 2) + 128) % 256) - 128) * 2

DTypes == {"float32", "int8"}
IsFloatDtype(d) == d \in {"float32", "float64"}

\* A text element converts to no number: the assignment raises ValueError.
CanCast(v, dtype) == v.t # "str"

\* Conversion of one element to the dtype of the array that receives it
\* (numpy assignment casts with the 'unsafe' rule).
Cast(v, dtype) ==
    IF IsFloatDtype(dtype) THEN v
    ELSE IF v.t = "fin" THEN Fin(WrapInt8(TruncHalves(v.h)))
    ELSE castInvalid

Representable(v, dtype) ==
    /\ v.t # "str"
    /\ IsFloatDtype(dtype) \/ (v.t = "fin" /\ v.h % 2 = 0
                               /\ v.h >= -256 /\ v.h <= 254)

-----------------------------------------------------------------------------
(* Arrays *)

RECURSIVE Size(_)
Size(shape) == IF shape = <<>> THEN 1 ELSE Head(shape) * Size(Tail(shape))

\* Number of elements one step along axis j spans (row-major).
Stride(shape, j) == Size(SubSeq(shape, j + 1, Len(shape)))

\* Coordinate along axis j (from 1) of the row-major position k (from 1).
Coord(shape, k, j) == (((k - 1) \div Stride(shape, j)) % shape[j]) + 1

RECURSIVE FlatFrom(_, _, _)
FlatFrom(shape, idx, j) ==
    IF j > Len(shape) THEN 0
    ELSE (idx[j] - 1) * Stride(shape, j) + FlatFrom(shape, idx, j + 1)

\* Row-major position of the coordinates idx.
Flat(shape, idx) == 1 + FlatFrom(shape, idx, 1)

MkArray(shape, dtype, device, data) ==
    [shape |-> shape, dtype |-> dtype, device |-> device, data |-> data]

Full(shape, dtype, device, v) ==
    MkArray(shape, dtype, device, [k \in 1..Size(shape) |-> v])

\* Standard broadcasting: trailing axes are aligned, an axis of extent 1
\* is replicated.
Broadcastable(src, dst) ==
    /\ Len(src) <= Len(dst)
    /\ \A j \in 1..Len(src) :
          src[j] = 1 \/ src[j] = dst[j + Len(dst) - Len(src)]

\* Position in a value of shape src that is replicated to position k of dst.
BroadcastPos(src, dst, k) ==
    Flat(src, [j \in 1..Len(src) |->
                  IF src[j] = 1 THEN 1
                  ELSE Coord(dst, k, j + Len(dst) - Len(src))])

BroadcastData(value, dst) ==
    [k \in 1..Size(dst) |-> value.data[BroadcastPos(value.shape, dst, k)]]

-----------------------------------------------------------------------------
(* The array backend the initializers call into *)

Devices == {"cpu", "gpu"}

Raise(e, arr) == [exc |-> e, out |-> arr]
Return(arr) == [exc |-> "None", out |-> arr]

\* backend.get_device_from_array(array)
get_device_from_array(arr) == arr.device

\* device.xp.identity(n): the n x n float64 identity matrix, built on device.
xp_identity(n, device) ==
    MkArray(<<n, n>>, "float64", device,
            [k \in 1..(n * n) |->
                IF Coord(<<n, n>>, k, 1) = Coord(<<n, n>>, k, 2)
                THEN Fin(2) ELSE Fin(0)])

\* value * scale, element by element.
Multiply(value, scale) ==
    [value EXCEPT !.data = [k \in DOMAIN value.data |->
                               FloatMul(value.data[k], scale)]]

\* device.xp.asarray(fill_value) of a scalar: a 0-d array on device, float64
\* for a Python number and unicode for a str.
xp_asarray(fill_value, device) ==
    IF fill_value.kind = "str"
    THEN Full(<<>>, "str", device, StrAbc)
    ELSE Full(<<>>, "float64", device, fill_value.v)

\* Sum of two floats (finite operands of the model add exactly).
FloatAdd(a, b) ==
    IF a.t = "nan" \/ b.t = "nan" THEN NaNv
    ELSE IF a.t = "inf" THEN (IF b.t = "inf" /\ b.h # a.h THEN NaNv ELSE a)
    ELSE IF b.t = "inf" THEN b
    ELSE Fin(a.h + b.h)

\* Variant of Assigned: array[0] = value, only the first position is stored.
Assigned_firstOnly(arr, value) ==
    [k \in 1..Size(arr.shape) |->
        IF k = 1
        THEN Cast(BroadcastData(value, arr.shape)[k], arr.dtype)
        ELSE arr.data[k]]

\* Variant of Assigned: array[...] += value.
Assigned_accumulate(arr, value) ==
    [k \in 1..Size(arr.shape) |->
        Cast(FloatAdd(arr.data[k], BroadcastData(value, arr.shape)[k]),
             arr.dtype)]

\* The elements array[...] = value stores: value broadcast to the shape of
\* array and cast to the dtype of array.
Assigned(arr, value) ==
    [k \in 1..Size(arr.shape) |->
        Cast(BroadcastData(value, arr.shape)[k], arr.dtype)]

\* Variant of SetItem: array = value.astype(...) style rebinding, the result
\* takes the dtype of the value.
SetItem_rebind(arr, value) ==
    IF value.device # arr.device THEN Raise("TypeError", arr)
    ELSE IF ~Broadcastable(value.shape, arr.shape)
         THEN Raise("ValueError", arr)
    ELSE Return([arr EXCEPT !.data = BroadcastData(value, arr.shape),
                            !.dtype = value.dtype])

\* array[...] = value.  In-place: shape, dtype and device of array stay.
\* No implicit transfer between devices (TypeError); a value that does not
\* broadcast, or text that is no number, raises ValueError before any write.
SetItem(arr, value) ==
    IF value.device # arr.device THEN Raise("TypeError", arr)
    ELSE IF ~Broadcastable(value.shape, arr.shape)
         THEN Raise("ValueError", arr)
    ELSE IF \E k \in DOMAIN value.data : ~CanCast(value.data[k], arr.dtype)
         THEN Raise("ValueError", arr)
    ELSE Return([arr EXCEPT !.data = Assigned(arr, value)])

\* The transfer backend.copyto makes: src as it lands on device.
ToDevice(src, device) == [src EXCEPT !.device = device]

\* backend.copyto(dst, src): src is moved to the device of dst and copied
\* into it, with broadcasting.
copyto(dst, src) == SetItem(dst, ToDevice(src, get_device_from_array(dst)))

\* isinstance(fill_value, chainer.get_array_types())
IsArrayType(fill_value) == fill_value.kind = "ndarray"

\* numpy.isscalar(fill_value): Python numbers, str and bytes, numpy scalars.
isscalar(fill_value) == fill_value.kind \in {"float", "str"}

-----------------------------------------------------------------------------
(* Fill values and initializer objects *)

NoArr == MkArray(<<>>, "float64", "cpu", [k \in 1..1 |-> Fin(0)])

Scalar(v) == [kind |-> "float", v |-> v, arr |-> NoArr]
StrValue == [kind |-> "str", v |-> StrAbc, arr |-> NoArr]
ListValue == [kind |-> "list", v |-> Fin(0), arr |-> NoArr]
NoneValue == [kind |-> "NoneType", v |-> Fin(0), arr |-> NoArr]
ArrayValue(a) == [kind |-> "ndarray", v |-> Fin(0), arr |-> a]

NoObject ==
    [cls |-> "NoObject", scale |-> Fin(0), fill_value |-> NoneValue,
     dtype |-> "None"]

\* initializer.Initializer.__init__(self, dtype)
Initializer_init(obj, dtype) == [obj EXCEPT !.dtype = dtype]

\* Identity.__init__(self, scale, dtype)
IdentityInit(scale, dtype) ==
    [exc |-> "None",
     obj |-> Initializer_init([NoObject EXCEPT !.cls = "Identity",
                                                !.scale = scale], dtype)]

\* Variant of ConstantBaseInit: fill_value is not validated.
ConstantBaseInit_unchecked(obj, dtype) ==
    [exc |-> "None", obj |-> Initializer_init(obj, dtype)]

\* _Constant.__init__(self, dtype), self.fill_value being set by the class
\* or by the subclass constructor.
ConstantBaseInit(obj, dtype) ==
    IF ~(IsArrayType(obj.fill_value) \/ isscalar(obj.fill_value))
    THEN [exc |-> "ValueError", obj |-> NoObject]
    ELSE [exc |-> "None", obj |-> Initializer_init(obj, dtype)]

\* Constant.__init__(self, fill_value, dtype)
ConstantInit(fill_value, dtype) ==
    ConstantBaseInit([NoObject EXCEPT !.cls = "Constant",
                                      !.fill_value = fill_value], dtype)

\* Variant of ClassFillValue: NaN carries the fill value of One.
ClassFillValue_pasted(cls) ==
    IF cls = "Zero" THEN Scalar(Fin(0))
    ELSE IF cls \in {"One", "NaN"} THEN Scalar(Fin(2))
    ELSE NoneValue

\* The class attribute fill_value of Zero, One and NaN.
ClassFillValue(cls) ==
    IF cls = "Zero" THEN Scalar(Fin(0))
    ELSE IF cls = "One" THEN Scalar(Fin(2))
    ELSE IF cls = "NaN" THEN Scalar(NaNv)
    ELSE NoneValue

\* Zero(dtype), One(dtype), NaN(dtype): _Constant.__init__ is inherited.
FixedInit(cls, dtype) ==
    ConstantBaseInit([NoObject EXCEPT !.cls = cls,
                                      !.fill_value = ClassFillValue(cls)],
                     dtype)

-----------------------------------------------------------------------------
(* __call__ *)

\* if self.dtype is not None: assert array.dtype == self.dtype
DtypeAssertFails(obj, arr) == obj.dtype # "None" /\ arr.dtype # obj.dtype

\* Variant of NotSquare: only the rank is checked.
NotSquare_rankOnly(shape) == Len(shape) # 2

\* len(shape) != 2 or shape[0] != shape[1]
NotSquare(shape) == Len(shape) # 2 \/ shape[1] # shape[2]

\* Variant of IdentityValue: the scale is left out.
IdentityValue_unscaled(obj, arr) ==
    xp_identity(arr.shape[1], get_device_from_array(arr))

\* device.xp.identity(shape[0]) * self.scale
IdentityValue(obj, arr) ==
    Multiply(xp_identity(arr.shape[1], get_device_from_array(arr)),
             obj.scale)

\* Variant of IdentityCall: the shape is checked before the dtype.
IdentityCall_shapeFirst(obj, arr) ==
    IF NotSquare(arr.shape) THEN Raise("ValueError", arr)
    ELSE IF DtypeAssertFails(obj, arr) THEN Raise("AssertionError", arr)
    ELSE SetItem(arr, IdentityValue(obj, arr))

\* Identity.__call__(self, array)
IdentityCall(obj, arr) ==
    IF DtypeAssertFails(obj, arr) THEN Raise("AssertionError", arr)
    ELSE IF NotSquare(arr.shape) THEN Raise("ValueError", arr)
    ELSE SetItem(arr, IdentityValue(obj, arr))

\* Variant of ConstantCall: an array fill_value is assigned without the
\* transfer to the device of the array.
ConstantCall_noTransfer(obj, arr) ==
    IF DtypeAssertFails(obj, arr) THEN Raise("AssertionError", arr)
    ELSE IF IsArrayType(obj.fill_value)
         THEN SetItem(arr, obj.fill_value.arr)
    ELSE SetItem(arr, xp_asarray(obj.fill_value, get_device_from_array(arr)))

\* _Constant.__call__(self, array)
ConstantCall(obj, arr) ==
    IF DtypeAssertFails(obj, arr) THEN Raise("AssertionError", arr)
    ELSE IF IsArrayType(obj.fill_value)
         THEN copyto(arr, obj.fill_value.arr)
    ELSE SetItem(arr, xp_asarray(obj.fill_value, get_device_from_array(arr)))

-----------------------------------------------------------------------------
(* Inputs *)

Ranks == 0..3
Shapes == UNION {[1..r -> 1..MaxDim] : r \in Ranks}

\* Prior contents of a target array: zero-initialized, a sentinel pre-fill,
\* or pairwise different elements.
Priors == {"zeros", "sentinel", "ramp"}
PriorData(shape, p) ==
    [k \in 1..Size(shape) |->
        IF p = "zeros" THEN Fin(0)
        ELSE IF p = "sentinel" THEN Fin(14)
        ELSE Fin(2 * k)]

TargetArrays ==
    {MkArray(sh, d, dev, PriorData(sh, p)) :
        sh \in Shapes, d \in DTypes, dev \in Devices, p \in Priors}

\* 0.5, 1.0, -2.0, +inf, NaN
ScaleValues == {Fin(1), Fin(2), Fin(-4), PosInf, NaNv}
\* 0.5, 5, -2.0, NaN
FillScalars == {Fin(1), Fin(10), Fin(-4), NaNv}

\* Arrays given as fill_value: 0.5, 1.5, ... in a float32 array and
\* 1, 2, ... in an int8 array.
FillShapes == {<<2>>, <<2, 1>>}
FillData(shape, d) ==
    [k \in 1..Size(shape) |->
        IF d = "int8" THEN Fin(2 * k) ELSE Fin(2 * k - 1)]
FillArrays ==
    {MkArray(sh, d, dev, FillData(sh, d)) :
        sh \in FillShapes, d \in DTypes, dev \in Devices}

FillValues ==
    {Scalar(v) : v \in FillScalars} \cup {StrValue, ListValue, NoneValue}
        \cup {ArrayValue(x) : x \in FillArrays}

DtypeArgs == {"None"} \cup DTypes

\* The results a float -> int8 cast of NaN or inf has on the builds (0, -128).
InvalidCasts == {Fin(0), Fin(-256)}

NoCtor == [cls |-> "NoObject", fill_value |-> NoneValue, dtype |-> "None"]

Threads == {1, 2}

-----------------------------------------------------------------------------
(* Sequential use: one constructor call, then __call__s on one array *)

Init ==
    /\ self = NoObject
    /\ ctor = NoCtor
    /\ array \in TargetArrays
    /\ orig = array
    /\ before = array
    /\ exc = "None"
    /\ ret = "None"
    /\ calls = 0
    /\ castInvalid \in InvalidCasts
    /\ shared = NoObject
    /\ arrs = [t \in Threads |-> NoArr]
    /\ arrs0 = [t \in Threads |-> NoArr]
    /\ pc = [t \in Threads |-> "idle"]
    /\ temp = [t \in Threads |-> NoArr]
    /\ cursor = [t \in Threads |-> 0]
    /\ texc = [t \in Threads |-> "None"]

Constructed(cls, fill_value, dtype, r) ==
    /\ ctor' = [cls |-> cls, fill_value |-> fill_value, dtype |-> dtype]
    /\ self' = r.obj
    /\ exc' = r.exc
    /\ UNCHANGED <<array, orig, before, ret, calls, castInvalid>>
    /\ UNCHANGED concVars

Identity_init ==
    /\ self = NoObject
    /\ ctor = NoCtor
    /\ \E scale \in ScaleValues, dtype \in DtypeArgs :
           Constructed("Identity", NoneValue, dtype, IdentityInit(scale, dtype))

Constant_init ==
    /\ self = NoObject
    /\ ctor = NoCtor
    /\ \E fill_value \in FillValues, dtype \in DtypeArgs :
           Constructed("Constant", fill_value, dtype,
                       ConstantInit(fill_value, dtype))

Zero_init ==
    /\ self = NoObject
    /\ ctor = NoCtor
    /\ \E dtype \in DtypeArgs :
           Constructed("Zero", NoneValue, dtype, FixedInit("Zero", dtype))

One_init ==
    /\ self = NoObject
    /\ ctor = NoCtor
    /\ \E dtype \in DtypeArgs :
           Constructed("One", NoneValue, dtype, FixedInit("One", dtype))

NaN_init ==
    /\ self = NoObject
    /\ ctor = NoCtor
    /\ \E dtype \in DtypeArgs :
           Constructed("NaN", NoneValue, dtype, FixedInit("NaN", dtype))

Called(r) ==
    /\ calls < MaxCalls
    /\ before' = array
    /\ array' = r.out
    /\ exc' = r.exc
    /\ ret' = "None"
    /\ calls' = calls + 1
    /\ UNCHANGED <<self, ctor, orig, castInvalid>>
    /\ UNCHANGED concVars

Identity_call ==
    /\ self.cls = "Identity"
    /\ Called(IdentityCall(self, array))

Constant_call ==
    /\ self.cls \in {"Constant", "Zero", "One", "NaN"}
    /\ Called(ConstantCall(self, array))

Next ==
    \/ Identity_init
    \/ Constant_init
    \/ Zero_init
    \/ One_init
    \/ NaN_init
    \/ Identity_call
    \/ Constant_call

Spec == Init /\ [][Next]_vars

-----------------------------------------------------------------------------
(* Properties of sequential use *)

IsSquare(shape) == Len(shape) = 2 /\ shape[1] = shape[2]
OnDiagonal(shape, k) == Coord(shape, k, 1) = Coord(shape, k, 2)
AllZero(arr) == \A k \in DOMAIN arr.data : arr.data[k] = Fin(0)

\* The last step was Identity(scale=s), built without a dtype, called on an
\* n x n zero-initialized array.
IdentityOnZeros ==
    /\ calls >= 1
    /\ self.cls = "Identity"
    /\ self.dtype = "None"
    /\ IsSquare(before.shape)
    /\ AllZero(before)

ScaledIdentity ==
    \A k \in DOMAIN array.data :
        array.data[k] = IF OnDiagonal(array.shape, k) THEN self.scale
                        ELSE Fin(0)

\* C1 as stated: for every scale s, Identity(scale=s) on an n x n
\* zero-initialized array leaves s on the diagonal and 0 elsewhere.
C1_AnyScale == IdentityOnZeros => ScaledIdentity

\* C1, amended: for every finite scale s that the dtype of the array
\* represents exactly, Identity(scale=s) on an n x n zero-initialized array
\* leaves s on the diagonal and 0 elsewhere.
C1_FiniteRepresentableScale ==
    (IdentityOnZeros /\ IsFinite(self.scale)
        /\ Representable(self.scale, before.dtype)) => ScaledIdentity

C1_Witness ==
    /\ IdentityOnZeros
    /\ self.scale = Fin(1)
    /\ before.shape = <<2, 2>>
    /\ array.data[1] = Fin(1)
    /\ array.data[2] = Fin(0)

\* The last step was an Identity called on an array that is not 2-D or not
\* square.
IdentityOnBadShape ==
    /\ calls >= 1
    /\ self.cls = "Identity"
    /\ ~IsSquare(before.shape)

\* C2 as stated: Identity on an array that is not 2-D square raises
\* ValueError and leaves every element as it was.
C2_AlwaysValueError ==
    IdentityOnBadShape => (exc = "ValueError" /\ array = before)

\* C2, amended: Identity on an array that is not 2-D square, when the
\* initializer declares no dtype or the dtype of the array equals it, raises
\* ValueError and leaves every element as it was.
C2_ValueErrorAfterDtypeCheck ==
    (IdentityOnBadShape
        /\ (self.dtype = "None" \/ self.dtype = before.dtype))
    => (exc = "ValueError" /\ array = before)

C2_Witness ==
    /\ IdentityOnBadShape
    /\ before.shape = <<1, 2>>
    /\ before.data = PriorData(<<1, 2>>, "sentinel")
    /\ self.dtype = before.dtype
    /\ exc = "ValueError"

ConstantRejected ==
    /\ self = NoObject
    /\ exc = "ValueError"
    /\ calls = 0
    /\ array = orig

\* C3 as stated: Constant(fill_value) with a fill_value that is neither a
\* number nor a recognized array raises ValueError at construction; no
\* object exists and no array is written.
C3_NonNumericRejected ==
    (ctor.cls = "Constant" /\ ctor.fill_value.kind \notin {"float", "ndarray"})
    => ConstantRejected

\* C3, amended: Constant(fill_value) with a fill_value that is neither a
\* scalar as numpy.isscalar has it (a number, but also a str) nor a
\* recognized array raises ValueError at construction; no object exists and
\* no array is written.
C3_NonScalarRejected ==
    (ctor.cls = "Constant"
        /\ ctor.fill_value.kind \notin {"float", "str", "ndarray"})
    => ConstantRejected

C3_Witness ==
    /\ ctor.cls = "Constant"
    /\ ctor.fill_value = ListValue
    /\ ConstantRejected

\* The last step was Constant(fill_value=v), v a number, built without a
\* dtype, called on an array.
ConstantScalarCalled ==
    /\ calls >= 1
    /\ self.cls = "Constant"
    /\ self.fill_value.kind = "float"
    /\ self.dtype = "None"

AllEqual(arr, v) == \A k \in DOMAIN arr.data : arr.data[k] = v

\* C4 as stated: for a scalar v, Constant(fill_value=v) leaves every element
\* of an array of rank 0..3 equal to v.
C4_AnyScalar == ConstantScalarCalled => AllEqual(array, self.fill_value.v)

\* C4, amended: for a scalar v that the dtype of the array represents
\* exactly, Constant(fill_value=v) leaves every element of an array of rank
\* 0..3 equal to v.
C4_RepresentableScalar ==
    (ConstantScalarCalled /\ Representable(self.fill_value.v, before.dtype))
    => (exc = "None" /\ AllEqual(array, self.fill_value.v))

C4_Witness ==
    /\ ConstantScalarCalled
    /\ self.fill_value.v = Fin(10)
    /\ before.shape = <<2, 1, 2>>
    /\ before.data = PriorData(<<2, 1, 2>>, "ramp")
    /\ AllEqual(array, Fin(10))

\* The last step was Constant(fill_value=X), X an array that broadcasts to the
\* target and lives on another device than the target.
ConstantArrayCalled ==
    /\ calls >= 1
    /\ self.cls = "Constant"
    /\ self.fill_value.kind = "ndarray"
    /\ self.dtype = "None"
    /\ Broadcastable(self.fill_value.arr.shape, before.shape)
    /\ self.fill_value.arr.device # before.device

EqualsBroadcast ==
    /\ exc = "None"
    /\ array.device = before.device
    /\ \A k \in DOMAIN array.data :
          array.data[k] =
              self.fill_value.arr.data[
                  BroadcastPos(self.fill_value.arr.shape, array.shape, k)]

\* C5 as stated: Constant(fill_value=X) on a target on another device leaves
\* the target element-wise equal to the broadcast X, on its own device.
C5_AnyTarget == ConstantArrayCalled => EqualsBroadcast

\* C5, amended: Constant(fill_value=X) on a target of the dtype of X on
\* another device leaves the target element-wise equal to the broadcast X, on
\* its own device.
C5_SameDtype ==
    (ConstantArrayCalled /\ self.fill_value.arr.dtype = before.dtype)
    => EqualsBroadcast

C5_Witness ==
    /\ ConstantArrayCalled
    /\ self.fill_value.arr.shape = <<2, 1>>
    /\ self.fill_value.arr.dtype = "float32"
    /\ before.shape = <<2, 2, 2>>
    /\ before.dtype = "float32"
    /\ before.device = "gpu"
    /\ array.data[3] = Fin(3)
    /\ array.data[4] = Fin(3)

\* The last step was Zero(), One() or NaN(), built without a dtype, called
\* on an array.
FixedCalled(cls) ==
    /\ calls >= 1
    /\ self.cls = cls
    /\ self.dtype = "None"

AllNaN(arr) == \A k \in DOMAIN arr.data : IsNaN(arr.data[k])

FixedFillValues ==
    /\ self.cls = "Zero" => self.fill_value = Scalar(Fin(0))
    /\ self.cls = "One" => self.fill_value = Scalar(Fin(2))
    /\ self.cls = "NaN" => self.fill_value = Scalar(NaNv)
    /\ ctor.cls \in {"Zero", "One", "NaN"} => ctor.fill_value = NoneValue

\* C6 as stated: Zero, One and NaN have the fixed fill values 0.0, 1.0 and
\* NaN and take no fill value; after Zero() every element is 0, after One()
\* every element is 1, after NaN() every element is NaN.
C6_AnyArray ==
    /\ FixedFillValues
    /\ FixedCalled("Zero") => AllEqual(array, Fin(0))
    /\ FixedCalled("One") => AllEqual(array, Fin(2))
    /\ FixedCalled("NaN") => AllNaN(array)

\* C6, amended: as stated for Zero and One; after NaN() every element is NaN
\* when the array has a floating dtype.
C6_NaNOnFloat ==
    /\ FixedFillValues
    /\ FixedCalled("Zero") => AllEqual(array, Fin(0))
    /\ FixedCalled("One") => AllEqual(array, Fin(2))
    /\ (FixedCalled("NaN") /\ IsFloatDtype(before.dtype)) => AllNaN(array)

C6_Witness ==
    /\ FixedCalled("NaN")
    /\ before.dtype = "float32"
    /\ before.shape = <<2, 2>>
    /\ before.data = PriorData(<<2, 2>>, "sentinel")
    /\ AllNaN(array)

\* C7: an initializer built with a dtype, called on an array of another
\* dtype, fails with AssertionError whatever else is wrong with the array,
\* and leaves the array as it was; without a dtype no call fails with
\* AssertionError.
C7_DtypeAssertedFirst ==
    /\ (calls >= 1 /\ self.dtype # "None" /\ before.dtype # self.dtype)
       => (exc = "AssertionError" /\ array = before)
    /\ (calls >= 1 /\ (self.dtype = "None" \/ before.dtype = self.dtype))
       => exc # "AssertionError"

C7_Witness ==
    /\ calls >= 1
    /\ self.cls = "Identity"
    /\ self.dtype = "float32"
    /\ before.dtype = "int8"
    /\ ~IsSquare(before.shape)
    /\ exc = "AssertionError"
    /\ array = before

\* C8: a second successive __call__ with the same initializer on the same
\* array, which it accepts, leaves the contents the first call left.
C8_Idempotent == (calls >= 2 /\ exc = "None") => array = before

C8_Witness ==
    /\ calls = 2
    /\ exc = "None"
    /\ self.cls = "Identity"
    /\ array = before
    /\ array.data # orig.data

\* C9: a __call__, successful or failing, changes neither the shape nor the
\* dtype of the array nor the parameters of the initializer, and returns
\* None.
C9_Frame ==
    [][calls' = calls + 1 =>
          /\ array'.shape = array.shape
          /\ array'.dtype = array.dtype
          /\ ret' = "None"
          /\ self'.scale = self.scale
          /\ self'.fill_value = self.fill_value
          /\ self'.dtype = self.dtype]_vars

C9_Witness ==
    /\ calls = 2
    /\ exc = "None"
    /\ array.data # orig.data
    /\ array.shape = orig.shape
    /\ array.dtype = "int8"

-----------------------------------------------------------------------------
(* Concurrent use: two threads call one initializer, each on its own array. *)
(* A __call__ is split at every read of the initializer and every element   *)
(* it stores, so that every interleaving of two calls is a behaviour.       *)

ConcShapes == {<<2>>, <<1, 2>>, <<2, 2>>}
ConcArrays ==
    {MkArray(sh, d, dev, PriorData(sh, "ramp")) :
        sh \in ConcShapes, d \in DTypes, dev \in Devices}

ConcInitializers ==
    {IdentityInit(s, d).obj : s \in {Fin(1), PosInf}, d \in DtypeArgs}
    \cup {ConstantInit(fv, d).obj :
            fv \in {Scalar(Fin(10)), StrValue,
                    ArrayValue(MkArray(<<2>>, "float32", "cpu",
                                       FillData(<<2>>, "float32")))},
            d \in {"None", "float32"}}
    \cup {FixedInit("NaN", "None").obj}

InitConc ==
    /\ self = NoObject
    /\ ctor = NoCtor
    /\ array = NoArr
    /\ orig = NoArr
    /\ before = NoArr
    /\ exc = "None"
    /\ ret = "None"
    /\ calls = 0
    /\ castInvalid \in InvalidCasts
    /\ shared \in ConcInitializers
    /\ arrs \in [Threads -> ConcArrays]
    /\ arrs0 = arrs
    /\ pc = [t \in Threads |-> "start"]
    /\ temp = [t \in Threads |-> NoArr]
    /\ cursor = [t \in Threads |-> 0]
    /\ texc = [t \in Threads |-> "None"]

\* Variant of LocalValue: the value is kept where both calls reach it.
LocalValue_shared(t) == temp[1]

\* The value a call is assigning is a local of that call.
LocalValue(t) == temp[t]

\* One element of array[...] = value reaching the storage of the array the
\* call was given.
WriteElem(t, k, v) == [arrs EXCEPT ![t].data[k] = v]

Raised(t, e) ==
    /\ texc' = [texc EXCEPT ![t] = e]
    /\ pc' = [pc EXCEPT ![t] = "raised"]

\* if self.dtype is not None: assert array.dtype == self.dtype
Thread_assert(t) ==
    /\ pc[t] = "start"
    /\ IF DtypeAssertFails(shared, arrs[t])
       THEN Raised(t, "AssertionError")
       ELSE pc' = [pc EXCEPT ![t] = "checked"] /\ UNCHANGED texc
    /\ UNCHANGED <<shared, arrs, arrs0, temp, cursor, castInvalid>>
    /\ UNCHANGED seqVars

\* Identity: the shape check.
Thread_shape(t) ==
    /\ pc[t] = "checked"
    /\ shared.cls = "Identity"
    /\ IF NotSquare(arrs[t].shape)
       THEN Raised(t, "ValueError")
       ELSE pc' = [pc EXCEPT ![t] = "shaped"] /\ UNCHANGED texc
    /\ UNCHANGED <<shared, arrs, arrs0, temp, cursor, castInvalid>>
    /\ UNCHANGED seqVars

\* Identity: device.xp.identity(shape[0]) * self.scale
Thread_identity_value(t) ==
    /\ pc[t] = "shaped"
    /\ temp' = [temp EXCEPT ![t] = IdentityValue(shared, arrs[t])]
    /\ pc' = [pc EXCEPT ![t] = "assign"]
    /\ UNCHANGED <<shared, arrs, arrs0, cursor, texc, castInvalid>>
    /\ UNCHANGED seqVars

\* _Constant: the value copied or assigned, on the device of the array.
Thread_constant_value(t) ==
    /\ pc[t] = "checked"
    /\ shared.cls # "Identity"
    /\ temp' = [temp EXCEPT ![t] =
                  IF IsArrayType(shared.fill_value)
                  THEN ToDevice(shared.fill_value.arr,
                                get_device_from_array(arrs[t]))
                  ELSE xp_asarray(shared.fill_value,
                                  get_device_from_array(arrs[t]))]
    /\ pc' = [pc EXCEPT ![t] = "assign"]
    /\ UNCHANGED <<shared, arrs, arrs0, cursor, texc, castInvalid>>
    /\ UNCHANGED seqVars

\* array[...] = value: the checks made before the first element is stored.
Thread_assign(t) ==
    /\ pc[t] = "assign"
    /\ LET r == SetItem(arrs[t], LocalValue(t)) IN
          IF r.exc # "None"
          THEN Raised(t, r.exc) /\ UNCHANGED cursor
          ELSE /\ pc' = [pc EXCEPT ![t] = "writing"]
               /\ cursor' = [cursor EXCEPT ![t] = 1]
               /\ UNCHANGED texc
    /\ UNCHANGED <<shared, arrs, arrs0, temp, castInvalid>>
    /\ UNCHANGED seqVars

\* array[...] = value: one element is stored.
Thread_write(t) ==
    /\ pc[t] = "writing"
    /\ arrs' = WriteElem(t, cursor[t],
                         Assigned(arrs[t], LocalValue(t))[cursor[t]])
    /\ cursor' = [cursor EXCEPT ![t] = cursor[t] + 1]
    /\ pc' = [pc EXCEPT ![t] =
                IF cursor[t] = Size(arrs[t].shape) THEN "done" ELSE "writing"]
    /\ UNCHANGED <<shared, arrs0, temp, texc, castInvalid>>
    /\ UNCHANGED seqVars

NextConc ==
    \/ \E t \in Threads : Thread_assert(t)
    \/ \E t \in Threads : Thread_shape(t)
    \/ \E t \in Threads : Thread_identity_value(t)
    \/ \E t \in Threads : Thread_constant_value(t)
    \/ \E t \in Threads : Thread_assign(t)
    \/ \E t \in Threads : Thread_write(t)

SpecConc == InitConc /\ [][NextConc]_vars

\* What a lone __call__ of obj makes of arr.
LoneCall(obj, arr) ==
    IF obj.cls = "Identity" THEN IdentityCall(obj, arr)
    ELSE ConstantCall(obj, arr)

Finished(t) == pc[t] \in {"done", "raised"}

\* C10: under every interleaving of two calls that share an initializer and
\* have an array each, each array ends as a lone call would leave it, no
\* array changes but by a step of its own call, and the initializer is
\* never changed.
C10_ConcurrentCallsSafe ==
    /\ [](\A t \in Threads :
            Finished(t) =>
                /\ arrs[t] = LoneCall(shared, arrs0[t]).out
                /\ texc[t] = LoneCall(shared, arrs0[t]).exc)
    /\ [][/\ shared' = shared
          /\ \A t \in Threads :
                (pc'[t] = pc[t] /\ cursor'[t] = cursor[t])
                    => arrs'[t] = arrs[t]]_vars

C10_Witness ==
    /\ shared.cls = "Identity"
    /\ shared.scale = Fin(1)
    /\ pc[1] = "done"
    /\ pc[2] = "writing"
    /\ cursor[2] = 3
    /\ arrs0[1].shape = <<2, 2>>
    /\ arrs0[2].shape = <<2, 2>>
    /\ arrs0[1].dtype # arrs0[2].dtype
    /\ arrs[1] # arrs0[1]

====
